---- MODULE Spec2Model ----
(***************************************************************************)
(* The TomatoBar -> Notion exporter (src/unnamed/part_000): the log-line   *)
(* parser, the work-period reducer, the normalizer, the delivery loop and  *)
(* the failures-log recovery protocol, as a state machine over the two log *)
(* files.                                                                  *)
(*                                                                         *)
(* Dates are JavaScript time values: integer milliseconds.  Timestamps in  *)
(* log lines are JavaScript numbers (IEEE-754 binary64) holding seconds;   *)
(* the conversions between the two (getTime() / 1000 and timestamp * 1000  *)
(* followed by the Date constructor's truncation) are computed on exact    *)
(* 53-bit significands below.                                              *)
(***************************************************************************)
EXTENDS Integers, Sequences, FiniteSets, TLC

(***************************************************************************)
(* Unbounded naturals: little-endian sequences of limbs in 0 .. Base-1     *)
(* without leading (most significant) zero limbs; <<>> is zero.            *)
(***************************************************************************)
Base == 2 ^ 15

RECURSIVE BigFromNat(_)
BigFromNat(n) ==
  IF n = 0 THEN <<>> ELSE <<n % Base>> \o BigFromNat(n \div Base)

RECURSIVE BigToNat(_)
BigToNat(a) ==
  IF a = <<>> THEN 0 ELSE Head(a) + Base * BigToNat(Tail(a))

RECURSIVE BigStrip(_)
BigStrip(a) ==
  IF a = <<>> THEN <<>>
  ELSE IF a[Len(a)] = 0 THEN BigStrip(SubSeq(a, 1, Len(a) - 1))
  ELSE a

\* a * m + carry, for 1 <= m <= 2^15
RECURSIVE BigMulSmall(_, _, _)
BigMulSmall(a, m, carry) ==
  IF a = <<>> THEN BigFromNat(carry)
  ELSE LET t == Head(a) * m + carry
       IN  <<t % Base>> \o BigMulSmall(Tail(a), m, t \div Base)

\* the limbs 1..i of a, with rem carried in from above, divided by d <= 2^15
RECURSIVE BigDivRec(_, _, _, _)
BigDivRec(a, d, i, rem) ==
  IF i = 0 THEN [q |-> <<>>, r |-> rem]
  ELSE LET cur == rem * Base + a[i]
           lower == BigDivRec(a, d, i - 1, cur % d)
       IN  [q |-> Append(lower.q, cur \div d), r |-> lower.r]

BigDivSmall(a, d) ==
  LET dv == BigDivRec(a, d, Len(a), 0)
  IN  [q |-> BigStrip(dv.q), r |-> dv.r]

RECURSIVE BitLen(_)
BitLen(n) == IF n = 0 THEN 0 ELSE 1 + BitLen(n \div 2)

LimbBits == BitLen(Base) - 1

BigBitLen(a) ==
  IF a = <<>> THEN 0 ELSE LimbBits * (Len(a) - 1) + BitLen(a[Len(a)])

BigIsOdd(a) == a # <<>> /\ Head(a) % 2 = 1

\* a * 2^n
RECURSIVE BigShl(_, _)
BigShl(a, n) ==
  IF a = <<>> \/ n = 0 THEN a
  ELSE IF n >= LimbBits THEN <<0>> \o BigShl(a, n - LimbBits)
  ELSE BigMulSmall(a, 2 ^ n, 0)

\* floor(a / 2^n), and whether a nonzero bit was shifted out
RECURSIVE BigShr(_, _)
BigShr(a, n) ==
  IF a = <<>> \/ n = 0 THEN [q |-> a, sticky |-> FALSE]
  ELSE IF n >= LimbBits
       THEN LET rest == BigShr(Tail(a), n - LimbBits)
            IN  [q |-> rest.q, sticky |-> rest.sticky \/ Head(a) # 0]
  ELSE LET dv == BigDivSmall(a, 2 ^ n)
       IN  [q |-> dv.q, sticky |-> dv.r # 0]

(***************************************************************************)
(* IEEE-754 binary64 values >= 0 in the normal range: [mant, exp] stands   *)
(* for mant * 2^exp, mant of exactly 53 bits; zero is mant = <<>>.   *)
(***************************************************************************)
DoubleZero == [mant |-> <<>>, exp |-> 0]

\* (a + f) * 2^e rounded to nearest, ties to even; inexact says 0 < f < 1
\* (then a carries at least MantBits + 1 bits)
RoundToDouble(a, e, inexact) ==
  LET MantBits == 53
      n == BigBitLen(a) - MantBits
  IN  IF a = <<>> THEN DoubleZero
      ELSE IF n <= 0 THEN [mant |-> BigShl(a, 0 - n), exp |-> e + n]
      ELSE LET s == BigShr(a, n - 1)
               guard == BigIsOdd(s.q)
               q == BigShr(s.q, 1).q
               up == guard /\ (s.sticky \/ inexact \/ BigIsOdd(q))
               m == IF up THEN BigMulSmall(q, 1, 1) ELSE q
           IN  IF BigBitLen(m) > MantBits
               THEN [mant |-> BigShr(m, 1).q, exp |-> e + n + 1]
               ELSE [mant |-> m, exp |-> e + n]

\* the binary64 quotient n / d of two integers held in numbers (d < 2^16):
\* also the value of the decimal literal n/d when d is a power of ten
ExtraBits == 5 * LimbBits
DoubleDiv(n, d) ==
  LET dv == BigDivSmall(BigShl(BigFromNat(n), ExtraBits), d)
  IN  RoundToDouble(dv.q, 0 - ExtraBits, dv.r # 0)

\* the binary64 quotient x / d of a number by an integer (d < 2^16)
DoubleDivBy(x, d) ==
  LET dv == BigDivSmall(BigShl(x.mant, ExtraBits), d)
  IN  RoundToDouble(dv.q, x.exp - ExtraBits, dv.r # 0)

\* the binary64 product x * m, m an integer <= 2^15
DoubleMul(x, m) == RoundToDouble(BigMulSmall(x.mant, m, 0), x.exp, FALSE)

\* TimeClip / ToIntegerOrInfinity: truncation toward zero
DoubleTrunc(x) ==
  IF x.exp >= 0 THEN BigToNat(BigShl(x.mant, x.exp))
  ELSE BigToNat(BigShr(x.mant, 0 - x.exp).q)


\* a number with its sign: JavaScript numbers that may be negative
NumDiv(n, d) == [neg |-> n < 0, abs |-> DoubleDiv(IF n < 0 THEN 0 - n ELSE n, d)]

\* Math.round: the integer nearest x, ties toward +Infinity
MathRound(x) ==
  LET whole == DoubleTrunc(x.abs)
      \* floor(2 * |x|) and whether 2 * |x| has a fraction
      twice == IF x.abs.exp + 1 >= 0
               THEN [q |-> BigShl(x.abs.mant, x.abs.exp + 1), sticky |-> FALSE]
               ELSE BigShr(x.abs.mant, 0 - (x.abs.exp + 1))
      halfOrMore == BigIsOdd(twice.q)
      moreThanHalf == halfOrMore /\ twice.sticky
  IN  IF x.neg
      THEN 0 - (IF moreThanHalf THEN whole + 1 ELSE whole)
      ELSE IF halfOrMore THEN whole + 1 ELSE whole

Min(a, b) == IF a < b THEN a ELSE b

(***************************************************************************)
(* Values.  null is <<>> and a non-null value v is <<v>>.  A file is       *)
(* [exists, text]; a text is held as its split('\n') image: a non-empty    *)
(* sequence of lines, each line the sequence of the JSON objects written   *)
(* on it ('' is <<>>, so the empty text is << <<>> >>).                    *)
(***************************************************************************)
Null == <<>>
Some(v) == <<v>>
Val(o) == o[1]

EmptyText == << <<>> >>
Absent == [exists |-> FALSE, text |-> EmptyText]

\* string concatenation a + b on split images
Concat(a, b) ==
  SubSeq(a, 1, Len(a) - 1) \o <<a[Len(a)] \o b[1]>> \o SubSeq(b, 2, Len(b))

\* the text '\n'
NL == << <<>>, <<>> >>

\* `${x}\n${y}`
JoinNL(x, y) == Concat(Concat(x, NL), y)

\* promises.writeFile(path, data)
writeFile(file, data) == [exists |-> TRUE, text |-> data]

\* promises.appendFile(path, data): creates the file when there is none
appendFile(file, data) ==
  [exists |-> TRUE, text |-> Concat(IF file.exists THEN file.text ELSE EmptyText, data)]

TimerState == {"idle", "work", "rest"}

\* JSON.stringify of a JsonLogLine; JSON.parse gives the same object back
\* (a number prints as the shortest decimal that reads back as itself)
JsonText(json) == << <<json>> >>
JsonParse(line) == line[1]

\* mutant: the end line is stamped with the start
getLogLinesEndFromStart(workPeriod) ==
  LET startJson == [event |-> "startStop", fromState |-> "idle", toState |-> "work",
                    timestamp |-> DoubleDiv(workPeriod.start, 1000),
                    type |-> "transition"]
      endJson == [event |-> "startStop", fromState |-> "work", toState |-> "idle",
                  timestamp |-> DoubleDiv(workPeriod.start, 1000),
                  type |-> "transition"]
  IN  JoinNL(JsonText(startJson), JsonText(endJson))

\* mutant: only the start line is written
getLogLinesStartOnly(workPeriod) ==
  LET startJson == [event |-> "startStop", fromState |-> "idle", toState |-> "work",
                    timestamp |-> DoubleDiv(workPeriod.start, 1000),
                    type |-> "transition"]
  IN  JsonText(startJson)

getLogLinesFromWorkPeriod(workPeriod) ==
  LET startJson == [event |-> "startStop", fromState |-> "idle", toState |-> "work",
                    timestamp |-> DoubleDiv(workPeriod.start, 1000),
                    type |-> "transition"]
      endJson == [event |-> "startStop", fromState |-> "work", toState |-> "idle",
                  timestamp |-> DoubleDiv(workPeriod.end, 1000),
                  type |-> "transition"]
  IN  JoinNL(JsonText(startJson), JsonText(endJson))

unixToDate(unixTimestamp) == DoubleTrunc(DoubleMul(unixTimestamp, 1000))

parseLogLine(line) ==
  LET jsonLine == JsonParse(line)
      date == unixToDate(jsonLine.timestamp)
      stopping == jsonLine.toState = "idle" \/ jsonLine.toState = "rest"
  IN  [stopping |-> stopping, date |-> date]

\* readFile throws when there is no file; the catch returns []
getFileLines(file) ==
  IF ~file.exists THEN <<>>
  ELSE SelectSeq(file.text, LAMBDA line : Len(line) > 0)

parseLog(file) ==
  LET lines == getFileLines(file)
  IN  [i \in 1..Len(lines) |-> parseLogLine(lines[i])]

MINUTE == 60 * 1000
MAX_WORK_PERIOD == 25 * MINUTE
MIN_WORK_PERIOD == 5 * MINUTE

\* mutant: an interval of exactly the minimum is dropped
normalizeDropsMinimum(start, end) ==
  LET duration == end - start
      periods == MathRound(NumDiv(duration, MINUTE))
      minuteDuration == periods * MINUTE
      truncatedDuration == Min(minuteDuration, MAX_WORK_PERIOD)
  IN  IF minuteDuration <= MIN_WORK_PERIOD THEN Null
      ELSE Some([start |-> start, end |-> start + truncatedDuration])

\* mutant: no minimum at all
normalizeNoMinimum(start, end) ==
  LET duration == end - start
      periods == MathRound(NumDiv(duration, MINUTE))
      minuteDuration == periods * MINUTE
      truncatedDuration == Min(minuteDuration, MAX_WORK_PERIOD)
  IN  Some([start |-> start, end |-> start + truncatedDuration])

normalizeWorkPeriod(start, end) ==
  LET startTimestamp == start
      endTimestamp == end
      duration == endTimestamp - startTimestamp
      periods == MathRound(NumDiv(duration, MINUTE))
      minuteDuration == periods * MINUTE
      truncatedDuration == Min(minuteDuration, MAX_WORK_PERIOD)
  IN  IF minuteDuration < MIN_WORK_PERIOD THEN Null
      ELSE Some([start |-> startTimestamp, end |-> startTimestamp + truncatedDuration])

\* the state of getWorkPeriods' loop before its first line
ReducerInit == [workStart |-> Null, workPeriods |-> <<>>]

\* mutant: a second opening line restarts the open interval
ReducerStepReopens(st, line) ==
  IF line.stopping /\ st.workStart # Null
  THEN LET normalizedPeriod == normalizeWorkPeriod(Val(st.workStart), line.date)
       IN  [workStart |-> Null,
            workPeriods |-> IF normalizedPeriod # Null
                            THEN Append(st.workPeriods, Val(normalizedPeriod))
                            ELSE st.workPeriods]
  ELSE IF ~line.stopping
  THEN [st EXCEPT !.workStart = Some(line.date)]
  ELSE st

\* one iteration of getWorkPeriods' loop
ReducerStep(st, line) ==
  IF line.stopping /\ st.workStart # Null
  THEN LET workEnd == line.date
           normalizedPeriod == normalizeWorkPeriod(Val(st.workStart), workEnd)
       IN  [workStart |-> Null,
            workPeriods |-> IF normalizedPeriod # Null
                            THEN Append(st.workPeriods, Val(normalizedPeriod))
                            ELSE st.workPeriods]
  ELSE IF ~line.stopping /\ st.workStart = Null
  THEN [st EXCEPT !.workStart = Some(line.date)]
  ELSE st

RECURSIVE ReducerRun(_, _, _)
ReducerRun(st, log, i) ==
  IF i > Len(log) THEN st ELSE ReducerRun(ReducerStep(st, log[i]), log, i + 1)

getWorkPeriods(log) == ReducerRun(ReducerInit, log, 1).workPeriods

(***************************************************************************)
(* src/src/script.ts, the first version of the script: its reducer emits   *)
(* the page properties of every closed interval, without normalizing.      *)
(* toISOString prints a time value digit for digit; the ISO strings are    *)
(* held as the time values they print.                                     *)
(***************************************************************************)
createWorkPropertyScript(start, end) ==
  LET startISO == start
      endISO == end
      seconds == NumDiv(end - start, 1000)
      minuteDuration == [neg |-> seconds.neg, abs |-> DoubleDivBy(seconds.abs, 60)]
  IN  [Name |-> minuteDuration, WorkingTime |-> [start |-> startISO, end |-> endISO]]

\* one iteration of the loop of script.ts' getWorkPeriods
ReducerStepScript(st, line) ==
  IF line.stopping /\ st.workStart # Null
  THEN LET workEnd == line.date
       IN  [workStart |-> Null,
            workPeriods |-> Append(st.workPeriods,
                                   createWorkPropertyScript(Val(st.workStart), workEnd))]
  ELSE IF ~line.stopping /\ st.workStart = Null
  THEN [st EXCEPT !.workStart = Some(line.date)]
  ELSE st

(***************************************************************************)
(* The timer application: the writer of the primary log.  It appends one   *)
(* transition line at a time, with timestamps in increasing order.         *)
(***************************************************************************)
MaxStamps == 4
MaxCrashes == 1

\* timestamps (seconds) as the decimal literals n/d of the log lines
AllStamps ==
  << [n |-> 100, d |-> 1], [n |-> 750, d |-> 1], [n |-> 10240035, d |-> 10000],
     [n |-> 2400, d |-> 1], [n |-> 27105, d |-> 10], [n |-> 4000, d |-> 1] >>

TimerStamps == SubSeq(AllStamps, 1, Min(MaxStamps, Len(AllStamps)))

TimerLine(toState, k) ==
  [event |-> IF toState = "rest" THEN "timerFired" ELSE "startStop",
   fromState |-> IF toState = "work" THEN "idle" ELSE "work",
   toState |-> toState,
   timestamp |-> DoubleDiv(TimerStamps[k].n, TimerStamps[k].d),
   type |-> "transition"]

RequiredEnv ==
  {"NOTION_DATABASE_ID", "TOMOTABAR_LOG_PATH", "NOTION_API_KEY", "PATH_TO_NODE",
   "FAILURES_LOG_PATH"}

\* the environments a run is started with: complete, or one setting missing
Envs == {RequiredEnv} \cup {RequiredEnv \ {v} : v \in RequiredEnv}

VARIABLES
  primary,      \* the file at TOMOTABAR_LOG_PATH
  recovery,     \* the file at FAILURES_LOG_PATH
  clock,        \* index in TimerStamps of the timer's last line
  crashes,      \* how many runs were killed so far
  pc,           \* where the script is: "idle" when it is not running
  logLines,     \* main's logLines
  workPeriods,  \* main's workPeriods
  idx,          \* position of the delivery loop in workPeriods
  outcome,      \* how the run ended
  attempts,     \* this run's postWorkPeriod calls: [wp, ok, queued]
  primaryAtStart, \* the primary log as this run found it
  recoveryAtStart, \* the recovery log as this run found it
  prevFailed,   \* the work periods the previous run appended to the recovery log
  delivered,    \* the work periods the Sink has accepted so far
  arg, res      \* argument and result of a function applied on its own

vars ==
  <<primary, recovery, clock, crashes, pc, logLines, workPeriods, idx, outcome, attempts,
    primaryAtStart, recoveryAtStart, prevFailed, delivered, arg, res>>

mainVars ==
  <<primary, recovery, clock, crashes, pc, logLines, workPeriods, idx, outcome, attempts,
    primaryAtStart, recoveryAtStart, prevFailed, delivered>>
runVars ==
  <<logLines, workPeriods, idx, outcome, attempts, primaryAtStart, recoveryAtStart,
    prevFailed, delivered>>
fnVars == <<arg, res>>

ExitCode(o) == IF o \in {"config", "empty"} THEN 1 ELSE 0

\* before the first log line and the first run
MainInit ==
  /\ primary = Absent
  /\ recovery = Absent
  /\ clock = 0
  /\ crashes = 0
  /\ pc = "idle"
  /\ logLines = <<>>
  /\ workPeriods = <<>>
  /\ idx = 0
  /\ outcome = "none"
  /\ attempts = <<>>
  /\ primaryAtStart = Absent
  /\ recoveryAtStart = Absent
  /\ prevFailed = <<>>
  /\ delivered = {}

Init ==
  /\ MainInit
  /\ arg = <<>>
  /\ res = <<>>

\* the timer logs a transition (between runs of the script)
Timer ==
  /\ pc = "idle"
  /\ \E k \in (clock + 1)..Len(TimerStamps), toState \in TimerState :
       /\ primary' = appendFile(primary, Concat(JsonText(TimerLine(toState, k)), NL))
       /\ clock' = k
  /\ UNCHANGED <<recovery, crashes, pc>>
  /\ UNCHANGED runVars
  /\ UNCHANGED fnVars

\* mutant: the settings are checked after the primary log was read
ConfigErrorAfterParseLog ==
  /\ pc = "idle"
  /\ \E env \in Envs : env # RequiredEnv
  /\ pc' = "done"
  /\ outcome' = "config"
  /\ primaryAtStart' = primary
  /\ recoveryAtStart' = recovery
  /\ logLines' = parseLog(primary)
  /\ UNCHANGED <<primary, recovery, clock, crashes, workPeriods, idx, attempts, prevFailed,
                 delivered>>
  /\ UNCHANGED fnVars

\* main, lines 203-222: a required setting is missing
ConfigError ==
  /\ pc = "idle"
  /\ \E env \in Envs : env # RequiredEnv
  /\ pc' = "done"
  /\ outcome' = "config"
  /\ primaryAtStart' = primary
  /\ recoveryAtStart' = recovery
  /\ UNCHANGED <<primary, recovery, clock, crashes, logLines, workPeriods, idx, attempts,
                 prevFailed, delivered>>
  /\ UNCHANGED fnVars

\* main, lines 203-231: every setting is there
StartRun ==
  /\ pc = "idle"
  /\ \E env \in Envs : env = RequiredEnv
  /\ pc' = "parseLog"
  /\ primaryAtStart' = primary
  /\ recoveryAtStart' = recovery
  /\ UNCHANGED <<primary, recovery, clock, crashes, logLines, workPeriods, idx, outcome, attempts,
                 prevFailed, delivered>>
  /\ UNCHANGED fnVars

\* main, line 233
ParseLog ==
  /\ pc = "parseLog"
  /\ logLines' = parseLog(primary)
  /\ pc' = "checkForFailures"
  /\ UNCHANGED <<primary, recovery, clock, crashes, workPeriods, idx, outcome, attempts,
                 primaryAtStart, recoveryAtStart, prevFailed, delivered>>
  /\ UNCHANGED fnVars

\* mutant: the recovery log is left as it was read
checkForFailuresKeepsFile(file) ==
  LET lines == getFileLines(file)
  IN  IF ~file.exists THEN [failures |-> Null, file |-> file]
      ELSE IF Len(lines) = 0 THEN [failures |-> Null, file |-> file]
      ELSE [failures |-> Some(parseLog(file)), file |-> file]

\* checkForFailures' result (null for undefined) and the file it leaves
checkForFailures(file) ==
  LET lines == getFileLines(file)
  IN  IF ~file.exists THEN [failures |-> Null, file |-> file]
      ELSE IF Len(lines) = 0 THEN [failures |-> Null, file |-> file]
      ELSE [failures |-> Some(parseLog(file)), file |-> writeFile(file, EmptyText)]

\* main, lines 234-237
CheckForFailures ==
  /\ pc = "checkForFailures"
  /\ LET r == checkForFailures(recovery)
     IN  /\ recovery' = r.file
         /\ logLines' = IF r.failures # Null THEN logLines \o Val(r.failures)
                        ELSE logLines
  /\ pc' = "gate"
  /\ UNCHANGED <<primary, clock, crashes, workPeriods, idx, outcome, attempts, primaryAtStart,
                 recoveryAtStart, prevFailed, delivered>>
  /\ UNCHANGED fnVars

\* mutant: no check of the last line
GateWithoutInProgressCheck ==
  /\ pc = "gate"
  /\ IF Len(logLines) = 0
     THEN /\ outcome' = "empty"
          /\ pc' = "done"
          /\ UNCHANGED <<workPeriods, idx>>
     ELSE /\ workPeriods' = getWorkPeriods(logLines)
          /\ idx' = 1
          /\ pc' = "post"
          /\ UNCHANGED outcome
  /\ UNCHANGED <<primary, recovery, clock, crashes, logLines, attempts, primaryAtStart, recoveryAtStart, prevFailed, delivered>>
  /\ UNCHANGED fnVars

\* main, lines 239-249
Gate ==
  /\ pc = "gate"
  /\ IF Len(logLines) = 0
     THEN /\ outcome' = "empty"
          /\ pc' = "done"
          /\ UNCHANGED <<workPeriods, idx>>
     ELSE IF ~logLines[Len(logLines)].stopping
     THEN /\ outcome' = "inProgress"
          /\ pc' = "done"
          /\ UNCHANGED <<workPeriods, idx>>
     ELSE /\ workPeriods' = getWorkPeriods(logLines)
          /\ idx' = 1
          /\ pc' = "post"
          /\ UNCHANGED outcome
  /\ UNCHANGED <<primary, recovery, clock, crashes, logLines, attempts, primaryAtStart, recoveryAtStart, prevFailed, delivered>>
  /\ UNCHANGED fnVars

\* mutant: the division by 60 is left out
createWorkPropertyInSeconds(wp) ==
  LET startISO == wp.start
      endISO == wp.end
      seconds == NumDiv(wp.end - wp.start, 1000)
      minuteDuration == seconds
  IN  [Name |-> minuteDuration, WorkingTime |-> [start |-> startISO, end |-> endISO]]

(***************************************************************************)
(* createWorkProperty of the current script: the page properties of a work *)
(* period.  The title is the text of the number minuteDuration, held as    *)
(* that number; the ISO strings are held as the time values they print.    *)
(***************************************************************************)
createWorkProperty(wp) ==
  LET startISO == wp.start
      endISO == wp.end
      seconds == NumDiv(wp.end - wp.start, 1000)
      minuteDuration == [neg |-> seconds.neg, abs |-> DoubleDivBy(seconds.abs, 60)]
  IN  [Name |-> minuteDuration, WorkingTime |-> [start |-> startISO, end |-> endISO]]

\* the properties postWorkPeriod hands to notion.pages.create
postWorkPeriod(workPeriod) == createWorkProperty(workPeriod)

\* mutant: the catch block's append is not awaited and the loop goes on
PostWithoutAwait ==
  /\ pc = "post"
  /\ idx <= Len(workPeriods)
  /\ \E ok \in BOOLEAN :
       /\ attempts' = Append(attempts, [wp |-> workPeriods[idx],
                                        record |-> postWorkPeriod(workPeriods[idx]),
                                        ok |-> ok, queued |-> FALSE])
       /\ delivered' = IF ok THEN delivered \cup {workPeriods[idx]} ELSE delivered
       /\ idx' = idx + 1
       /\ pc' = "post"
  /\ UNCHANGED <<primary, recovery, clock, crashes, logLines, workPeriods, outcome, primaryAtStart,
                 recoveryAtStart, prevFailed>>
  /\ UNCHANGED fnVars

\* main, lines 252-254: postWorkPeriod for the next work period; the Sink
\* answers or throws
Post ==
  /\ pc = "post"
  /\ idx <= Len(workPeriods)
  /\ \E ok \in BOOLEAN :
       /\ attempts' = Append(attempts, [wp |-> workPeriods[idx],
                                        record |-> postWorkPeriod(workPeriods[idx]),
                                        ok |-> ok, queued |-> FALSE])
       /\ delivered' = IF ok THEN delivered \cup {workPeriods[idx]} ELSE delivered
       /\ IF ok THEN idx' = idx + 1 /\ pc' = "post"
                ELSE idx' = idx /\ pc' = "catch"
  /\ UNCHANGED <<primary, recovery, clock, crashes, logLines, workPeriods, outcome, primaryAtStart,
                 recoveryAtStart, prevFailed>>
  /\ UNCHANGED fnVars

\* mutant: the error is logged to the console only
CatchWithoutAppend ==
  /\ pc = "catch"
  /\ attempts' = [attempts EXCEPT ![Len(attempts)].queued = TRUE]
  /\ idx' = idx + 1
  /\ pc' = "post"
  /\ UNCHANGED <<primary, recovery, clock, crashes, logLines, workPeriods, outcome,
                 primaryAtStart, recoveryAtStart, prevFailed, delivered>>
  /\ UNCHANGED fnVars

\* mutant: a failure ends the loop
CatchBreaksLoop ==
  /\ pc = "catch"
  /\ recovery' = appendFile(recovery,
                   Concat(getLogLinesFromWorkPeriod(workPeriods[idx]), NL))
  /\ attempts' = [attempts EXCEPT ![Len(attempts)].queued = TRUE]
  /\ idx' = Len(workPeriods) + 1
  /\ pc' = "post"
  /\ UNCHANGED <<primary, clock, crashes, logLines, workPeriods, outcome, primaryAtStart, recoveryAtStart, prevFailed, delivered>>
  /\ UNCHANGED fnVars

\* main, lines 255-261: the catch block
Catch ==
  /\ pc = "catch"
  /\ recovery' = appendFile(recovery,
                   Concat(getLogLinesFromWorkPeriod(workPeriods[idx]), NL))
  /\ attempts' = [attempts EXCEPT ![Len(attempts)].queued = TRUE]
  /\ idx' = idx + 1
  /\ pc' = "post"
  /\ UNCHANGED <<primary, clock, crashes, logLines, workPeriods, outcome, primaryAtStart, recoveryAtStart, prevFailed, delivered>>
  /\ UNCHANGED fnVars

\* mutant: the primary log is not cleared
TruncateKeepsLog ==
  /\ pc = "post"
  /\ idx > Len(workPeriods)
  /\ primary' = primary
  /\ outcome' = "posted"
  /\ pc' = "done"
  /\ UNCHANGED <<recovery, clock, crashes, logLines, workPeriods, idx, attempts, primaryAtStart,
                 recoveryAtStart, prevFailed, delivered>>
  /\ UNCHANGED fnVars

\* main, lines 264-267
Truncate ==
  /\ pc = "post"
  /\ idx > Len(workPeriods)
  /\ primary' = writeFile(primary, EmptyText)
  /\ outcome' = "posted"
  /\ pc' = "done"
  /\ UNCHANGED <<recovery, clock, crashes, logLines, workPeriods, idx, attempts, primaryAtStart,
                 recoveryAtStart, prevFailed, delivered>>
  /\ UNCHANGED fnVars

\* the process is killed at a suspension point of main
Crash ==
  /\ pc \in {"parseLog", "checkForFailures", "gate", "post", "catch"}
  /\ crashes < MaxCrashes
  /\ crashes' = crashes + 1
  /\ outcome' = "crashed"
  /\ pc' = "done"
  /\ UNCHANGED <<primary, recovery, clock, logLines, workPeriods, idx, attempts,
                 primaryAtStart, recoveryAtStart, prevFailed, delivered>>
  /\ UNCHANGED fnVars

\* main, lines 233-249, as one function of the two logs: the work periods a
\* run finding them sets out to deliver
Batch(primaryLog, recoveryLog) ==
  LET failures == checkForFailures(recoveryLog).failures
      merged == IF failures # Null THEN parseLog(primaryLog) \o Val(failures)
                ELSE parseLog(primaryLog)
  IN  IF Len(merged) = 0 THEN <<>>
      ELSE IF ~merged[Len(merged)].stopping THEN <<>>
      ELSE getWorkPeriods(merged)

RECURSIVE Queued(_)
Queued(as) ==
  IF as = <<>> THEN <<>>
  ELSE (IF Head(as).queued THEN <<Head(as).wp>> ELSE <<>>) \o Queued(Tail(as))

\* the process is gone: nothing of the run is left but the files
Exit ==
  /\ pc = "done"
  /\ pc' = "idle"
  /\ logLines' = <<>>
  /\ workPeriods' = <<>>
  /\ idx' = 0
  /\ outcome' = "none"
  /\ attempts' = <<>>
  /\ primaryAtStart' = Absent
  /\ recoveryAtStart' = Absent
  /\ prevFailed' = Queued(attempts)
  /\ UNCHANGED <<primary, recovery, clock, crashes, delivered>>
  /\ UNCHANGED fnVars

Next ==
  \/ Timer
  \/ ConfigError
  \/ StartRun
  \/ ParseLog
  \/ CheckForFailures
  \/ Gate
  \/ Post
  \/ Catch
  \/ Truncate
  \/ Crash
  \/ Exit

Spec == Init /\ [][Next]_vars

(***************************************************************************)
(* normalizeWorkPeriod applied on its own                                  *)
(***************************************************************************)
NormalizeStarts == {0, 100000, 1024003}

\* end - start, in milliseconds
NormalizeDurations ==
  {0 - 90000, 0 - 30001, 0 - 30000, 0, 1, 29999, 30000, 180000, 269999, 270000,
   270001, 299999, 300000, 329999, 330000, 456000, 650000, 1469999, 1470000,
   1500000, 1529999, 1530000, 1800000, 6000000}

NormalizeArgs ==
  {[start |-> s, end |-> s + d] : s \in NormalizeStarts, d \in NormalizeDurations}

InitNormalize ==
  /\ MainInit
  /\ arg \in NormalizeArgs
  /\ res = <<>>

NormalizeCall ==
  /\ res = <<>>
  /\ res' = <<normalizeWorkPeriod(arg.start, arg.end)>>
  /\ UNCHANGED arg
  /\ UNCHANGED mainVars

NextNormalize == NormalizeCall

SpecNormalize == InitNormalize /\ [][NextNormalize]_vars

(***************************************************************************)
(* The reducers applied on their own, one loop iteration at a time, to     *)
(* chronological sequences of LogLines.                                    *)
(***************************************************************************)
MaxLog == 4

ReducerDates == {0, 300000, 600000, 660000}

LogLineSet == [stopping : BOOLEAN, date : ReducerDates]

Chronological(log) == \A i \in 1..(Len(log) - 1) : log[i].date <= log[i + 1].date

ReducerArgs ==
  {log \in UNION {[1..n -> LogLineSet] : n \in 0..MaxLog} : Chronological(log)}

InitReducer ==
  /\ MainInit
  /\ arg \in ReducerArgs
  /\ res = [i |-> 0, st |-> ReducerInit, j |-> 0, script |-> ReducerInit]

\* getWorkPeriods (part_000) reads its next line
ReducerIter ==
  /\ res.i < Len(arg)
  /\ res' = [res EXCEPT !.i = res.i + 1, !.st = ReducerStep(res.st, arg[res.i + 1])]
  /\ UNCHANGED arg
  /\ UNCHANGED mainVars

\* getWorkPeriods (script.ts) reads its next line
ReducerIterScript ==
  /\ res.j < Len(arg)
  /\ res' = [res EXCEPT !.j = res.j + 1,
                        !.script = ReducerStepScript(res.script, arg[res.j + 1])]
  /\ UNCHANGED arg
  /\ UNCHANGED mainVars

NextReducer == ReducerIter \/ ReducerIterScript

SpecReducer == InitReducer /\ [][NextReducer]_vars

(***************************************************************************)
(* Vocabulary of the claims                                                *)
(***************************************************************************)
Posted == pc = "done" /\ outcome = "posted"

WpsOf(as) == [i \in 1..Len(as) |-> as[i].wp]

\* the JSON objects on the non-empty lines of a file
Objects(file) ==
  LET lines == getFileLines(file) IN [i \in 1..Len(lines) |-> JsonParse(lines[i])]

\* a line recording fromState -> toState at the time value ms: its
\* timestamp is the number nearest ms / 1000 seconds
IsTransitionAt(json, fromState, toState, ms) ==
  /\ json.fromState = fromState
  /\ json.toState = toState
  /\ json.timestamp = DoubleDiv(ms, 1000)

\* how many of the first n attempts failed
RECURSIVE FailedBefore(_, _)
FailedBefore(as, n) ==
  IF n = 0 THEN 0 ELSE FailedBefore(as, n - 1) + (IF as[n].ok THEN 0 ELSE 1)

\* C1: every work period the previous run appended to the recovery log is
\* attempted by a run that reaches the delivery loop and completes, with
\* the same start and end, whatever the primary log held at its start.
C1_RedeliveredNextRun ==
  Posted => \A i \in 1..Len(prevFailed) :
              \E j \in 1..Len(attempts) : attempts[j].wp = prevFailed[i]

\* C2: at the end of a completed run every work period of the batch was
\* either delivered or appended to the recovery log as one (idle->work at
\* start, work->idle at end) pair of lines, never both and never neither,
\* and the recovery log holds nothing but the pairs of the failed ones.
C2_Conservation ==
  Posted =>
    LET objs == Objects(recovery)
        failed == FailedBefore(attempts, Len(attempts))
    IN  /\ WpsOf(attempts) = workPeriods
        /\ Len(objs) = 2 * failed
        /\ \A i \in 1..Len(attempts) :
             /\ attempts[i].ok = ~attempts[i].queued
             /\ ~attempts[i].ok =>
                  LET k == FailedBefore(attempts, i)
                  IN  /\ IsTransitionAt(objs[2 * k - 1], "idle", "work", attempts[i].wp.start)
                      /\ IsTransitionAt(objs[2 * k], "work", "idle", attempts[i].wp.end)
        /\ (failed = 0 => getFileLines(recovery) = <<>>)

C2_Witness ==
  /\ Posted
  /\ \E i, j \in 1..Len(attempts) : attempts[i].ok /\ ~attempts[j].ok

\* a run over one opening line and one stopping line whose only delivery
\* failed and was queued
SingleFailure ==
  /\ pc \in {"post", "done"}
  /\ Len(logLines) = 2 /\ ~logLines[1].stopping /\ logLines[2].stopping
  /\ Len(attempts) = 1 /\ attempts[1].queued
  /\ primaryAtStart.exists /\ Len(getFileLines(primaryAtStart)) = 2

\* C3 as stated: the two lines appended for a failed delivery parse to the
\* raw interval, the opening line's date and the stopping line's date.
C3_RawRequeued ==
  SingleFailure =>
    parseLog(recovery) = <<[stopping |-> FALSE, date |-> logLines[1].date],
                           [stopping |-> TRUE, date |-> logLines[2].date]>>

\* C3 amended: the two lines appended carry the normalized work period: the
\* opening line's time and that time plus the rounded, clamped duration.
C3_NormalizedRequeued ==
  SingleFailure =>
    LET objs == Objects(recovery)
        n == normalizeWorkPeriod(logLines[1].date, logLines[2].date)
    IN  /\ n # Null
        /\ Len(objs) = 2
        /\ IsTransitionAt(objs[1], "idle", "work", logLines[1].date)
        /\ IsTransitionAt(objs[2], "work", "idle", Val(n).end)
        /\ (logLines[1].date = 100000 /\ logLines[2].date = 750000
              => parseLog(recovery) = <<[stopping |-> FALSE, date |-> 100000],
                                        [stopping |-> TRUE, date |-> 760000]>>)

C3_Witness ==
  /\ SingleFailure
  /\ logLines[1].date = 100000 /\ logLines[2].date = 750000

\* C4: the lines getLogLinesFromWorkPeriod writes for a work period parse
\* back to an opening line at its start and a stopping line at its end.
C4_RoundTrip ==
  pc = "catch" =>
    LET wp == workPeriods[idx]
        text == getLogLinesFromWorkPeriod(wp)
    IN  parseLog(writeFile(Absent, text))
          = <<[stopping |-> FALSE, date |-> wp.start],
              [stopping |-> TRUE, date |-> wp.end]>>

\* C8: a run whose merged log ends with a non-stopping line calls the Sink
\* not once and leaves the primary log as it found it.
C8_WholeBatchGate ==
  (/\ pc \in {"post", "catch", "done"}
   /\ outcome # "config"
   /\ Len(logLines) > 0
   /\ ~logLines[Len(logLines)].stopping)
  => /\ pc = "done"
     /\ outcome \in {"inProgress", "crashed"}
     /\ attempts = <<>>
     /\ workPeriods = <<>>
     /\ primary = primaryAtStart

C8_Witness ==
  /\ pc = "done" /\ outcome = "inProgress"
  /\ Len(logLines) > 1
  /\ \E i \in 1..Len(logLines) : logLines[i].stopping

\* C9: a run that finds the primary log ending with a work-entering line
\* delivers nothing and leaves the primary log as it found it, whatever
\* the recovery log holds.
C9_InProgressPreserved ==
  (/\ pc = "done"
   /\ outcome # "crashed"
   /\ LET lines == parseLog(primaryAtStart)
      IN  Len(lines) > 0 /\ ~lines[Len(lines)].stopping)
  => attempts = <<>> /\ primary = primaryAtStart

\* C10: a run that reaches the delivery loop calls the Sink once for every
\* work period of the batch, in order, whatever the other calls answered,
\* and then leaves the primary log empty.
C10_AllAttemptedThenTruncated ==
  /\ pc \in {"post", "catch"} =>
       /\ WpsOf(attempts) = SubSeq(workPeriods, 1, Len(attempts))
       /\ Len(attempts) = IF pc = "catch" THEN idx ELSE idx - 1
  /\ Posted =>
       /\ workPeriods = getWorkPeriods(logLines)
       /\ WpsOf(attempts) = workPeriods
       /\ primary = [exists |-> TRUE, text |-> EmptyText]

C10_Witness ==
  /\ Posted
  /\ Len(attempts) >= 2
  /\ ~attempts[1].ok
  /\ primaryAtStart.exists /\ Len(getFileLines(primaryAtStart)) > 0

\* C5: normalize agrees with its reference: with q the whole number of
\* minutes nearest the duration (a half rounds up), the result is null iff
\* q < 5 minutes, and otherwise starts at start and lasts min(q, 25 min).
C5_NormalizeReference ==
  res # <<>> =>
    LET d == arg.end - arg.start
        q == 60000 * (CHOOSE k \in (0 - 200)..200 :
                        60000 * k - 30000 <= d /\ d < 60000 * k + 30000)
        r == res[1]
        Case(s, e, out) == (arg.start = s /\ arg.end = e) => r = out
    IN  /\ (r = Null) = (q < 5 * 60000)
        /\ r # Null =>
             /\ Val(r).start = arg.start
             /\ Val(r).end = arg.start + (IF q < 25 * 60000 THEN q ELSE 25 * 60000)
             /\ (Val(r).end - Val(r).start) % 60000 = 0
             /\ Val(r).end - Val(r).start >= 5 * 60000
             /\ Val(r).end - Val(r).start <= 25 * 60000
        /\ Case(0, 180000, Null)
        /\ Case(0, 300000, Some([start |-> 0, end |-> 300000]))
        /\ Case(0, 1800000, Some([start |-> 0, end |-> 1500000]))
        /\ Case(0, 456000, Some([start |-> 0, end |-> 480000]))

C5_Witness ==
  /\ arg = [start |-> 0, end |-> 456000]
  /\ res = <<Some([start |-> 0, end |-> 480000])>>

\* C6: over a chronological sequence of LogLines the reducer emits no work
\* period whose end is not after its start.
C6_EndAfterStart ==
  (res # <<>> /\ Chronological(arg)) =>
    \A k \in 1..Len(res.st.workPeriods) :
      res.st.workPeriods[k].end > res.st.workPeriods[k].start

C6_Witness ==
  /\ res # <<>>
  /\ res.i = Len(arg)
  /\ Len(res.st.workPeriods) = 2
  /\ \E k \in 1..(Len(arg) - 1) : arg[k].date = arg[k + 1].date

\* the transition table Idle / InWork(s) over one line: what the state
\* after is, and whether an interval was closed (emitted or dropped)
TableStep(workStart, line, workStartAfter) ==
  /\ (~line.stopping /\ workStart = Null) => workStartAfter = Some(line.date)
  /\ (~line.stopping /\ workStart # Null) => workStartAfter = workStart
  /\ line.stopping => workStartAfter = Null

C7_StepConforms ==
  /\ res'.i = res.i + 1 =>
       LET line == arg[res.i + 1]
           before == res.st
           after == res'.st
       IN  /\ TableStep(before.workStart, line, after.workStart)
           /\ \/ after.workPeriods = before.workPeriods
              \/ /\ line.stopping /\ before.workStart # Null
                 /\ Len(after.workPeriods) = Len(before.workPeriods) + 1
                 /\ SubSeq(after.workPeriods, 1, Len(before.workPeriods)) = before.workPeriods
                 /\ after.workPeriods[Len(after.workPeriods)].start = Val(before.workStart)
  /\ res'.j = res.j + 1 =>
       LET line == arg[res.j + 1]
           before == res.script
           after == res'.script
       IN  /\ TableStep(before.workStart, line, after.workStart)
           /\ IF line.stopping /\ before.workStart # Null
              THEN /\ Len(after.workPeriods) = Len(before.workPeriods) + 1
                   /\ SubSeq(after.workPeriods, 1, Len(before.workPeriods)) = before.workPeriods
                   /\ after.workPeriods[Len(after.workPeriods)].WorkingTime
                        = [start |-> Val(before.workStart), end |-> line.date]
              ELSE after.workPeriods = before.workPeriods

\* work-open@t0, work-open@t5, idle@t10
C7_Example ==
  <<[stopping |-> FALSE, date |-> 0], [stopping |-> FALSE, date |-> 300000],
    [stopping |-> TRUE, date |-> 600000]>>

\* C7: the reducer follows the two-state machine Idle / InWork(s) on every
\* line: a non-stopping line opens an interval only in Idle, a stopping line
\* closes the open interval (the one opened at s) and is a no-op in Idle; so
\* work-open@t0, work-open@t5, idle@t10 gives one interval, from t0 to t10.
C7_TwoStateMachine ==
  /\ [][C7_StepConforms]_vars
  /\ []((res # <<>> /\ arg = C7_Example /\ res.i = 3 /\ res.j = 3)
          => /\ res.st.workPeriods = <<[start |-> 0, end |-> 600000]>>
             /\ Len(res.script.workPeriods) = 1
             /\ res.script.workPeriods[1].WorkingTime = [start |-> 0, end |-> 600000])

C7_Witness ==
  /\ res # <<>> /\ arg = C7_Example /\ res.i = 3 /\ res.j = 3
  /\ res.st.workPeriods = <<[start |-> 0, end |-> 600000]>>

Crashed == pc = "done" /\ outcome = "crashed"

\* is x an element of the sequence s
InSeq(x, s) == \E j \in 1..Len(s) : s[j] = x

\* C11: when a run is killed before it truncated the primary log, the logs
\* it leaves still give every work period of its batch (the reduction of the
\* merged primary and recovery logs it started from) to the next run: the
\* batch a run starting from the logs as they are now sets out to deliver
\* contains each of them.
C11_CrashReprocessesBatch ==
  Crashed =>
    \A i \in 1..Len(Batch(primaryAtStart, recoveryAtStart)) :
      InSeq(Batch(primaryAtStart, recoveryAtStart)[i], Batch(primary, recovery))

ConfigFailed == pc = "done" /\ outcome = "config"

\* C12: a run that finds a required setting missing ends with exit code 1,
\* has read no line of either log, leaves both logs as it found them and
\* has made no Sink call.
C12_ConfigErrorBeforeLogIO ==
  ConfigFailed =>
    /\ ExitCode(outcome) = 1
    /\ logLines = <<>>
    /\ primary = primaryAtStart
    /\ recovery = recoveryAtStart
    /\ attempts = <<>>

\* a configuration error with lines waiting in both logs
C12_Witness ==
  /\ ConfigFailed
  /\ Len(getFileLines(primary)) > 0
  /\ Len(getFileLines(recovery)) > 0

\* C13: at every point of a run, a crash point included, the calls made so
\* far are for the first work periods of the batch, in order; every call
\* but the last has finished, and so has its append to the recovery log if
\* it failed; the last call's append is pending only in the catch block (or
\* when the process was killed there).
C13_SequentialInOrder ==
  pc \in {"post", "catch", "done"} =>
    /\ Len(attempts) <= Len(workPeriods)
    /\ \A i \in 1..Len(attempts) : attempts[i].wp = workPeriods[i]
    /\ \A i \in 1..(Len(attempts) - 1) : attempts[i].ok # attempts[i].queued
    /\ Len(attempts) > 0 /\ ~attempts[Len(attempts)].ok /\ ~attempts[Len(attempts)].queued
         => pc = "catch" \/ Crashed
    /\ pc = "post" => Len(attempts) = idx - 1
    /\ pc = "catch" => Len(attempts) = idx

\* the process is killed between the first and the second work period
C13_Witness ==
  /\ Crashed
  /\ Len(workPeriods) = 2
  /\ Len(attempts) = 1
  /\ attempts[1].queued

HasLines(file) == file.exists /\ Len(getFileLines(file)) > 0

\* C14: when a run has loaded the recovery log: if the log it found was
\* absent or had no non-empty line, the merged sequence is the primary
\* log's lines alone and, until the first Sink call, the recovery log is
\* as it was found; otherwise the merged sequence is the primary log's
\* lines followed by the recovery log's lines in file order and, until
\* the first Sink call, the recovery log exists and is empty.
C14_RecoveryLoader ==
  /\ pc = "gate" =>
       logLines = IF HasLines(recoveryAtStart)
                  THEN parseLog(primaryAtStart) \o parseLog(recoveryAtStart)
                  ELSE parseLog(primaryAtStart)
  /\ (pc \in {"gate", "post"} /\ attempts = <<>>) =>
       recovery = IF HasLines(recoveryAtStart)
                  THEN [exists |-> TRUE, text |-> EmptyText]
                  ELSE recoveryAtStart

\* both logs held lines and the load has just happened
C14_Witness ==
  /\ pc = "gate"
  /\ HasLines(primaryAtStart)
  /\ HasLines(recoveryAtStart)
  /\ Len(logLines) = Len(getFileLines(primaryAtStart)) + Len(getFileLines(recoveryAtStart))

\* a run whose merged log is one opening line and one stopping line, and
\* that has called the Sink for the interval they give
SinglePairAttempted ==
  /\ Len(logLines) = 2 /\ ~logLines[1].stopping /\ logLines[2].stopping
  /\ Len(attempts) = 1

RawInterval == [start |-> logLines[1].date, end |-> logLines[2].date]

\* C15 as stated: the minutes of the title of a delivered record are those
\* of the raw interval, its stopping line's time minus its opening line's
\* time, un-rounded.
C15_TitleFromRawDuration ==
  SinglePairAttempted =>
    attempts[1].record.Name = createWorkProperty(RawInterval).Name

\* a step that calls the Sink: the record handed over
C15_StepRecord ==
  Len(attempts') = Len(attempts) + 1 =>
    LET wp == attempts'[Len(attempts')].wp
        record == attempts'[Len(attempts')].record
    IN  /\ record.WorkingTime = [start |-> wp.start, end |-> wp.end]
        /\ (wp.end - wp.start) % MINUTE = 0
        /\ wp.end - wp.start >= MIN_WORK_PERIOD
        /\ wp.end - wp.start <= MAX_WORK_PERIOD
        /\ record.Name = NumDiv((wp.end - wp.start) \div MINUTE, 1)

\* C15: the record handed to the Sink carries the normalized work period's
\* start and end, and the minutes of its title are the whole number of
\* minutes between them (5 to 25): the rounded and clamped duration of the
\* raw interval, not its un-rounded duration.
C15_TitleFromNormalizedDuration ==
  /\ [][C15_StepRecord]_vars
  /\ [](SinglePairAttempted =>
          Some(attempts[1].wp) = normalizeWorkPeriod(RawInterval.start, RawInterval.end))

\* the raw interval (100 s, 750 s), 10.83 minutes, is delivered as "11"
C15_Witness ==
  /\ SinglePairAttempted
  /\ RawInterval = [start |-> 100000, end |-> 750000]
  /\ attempts[1].record.Name = NumDiv(11, 1)
  /\ attempts[1].record.Name # createWorkProperty(RawInterval).Name

\* normalizeWorkPeriod applied to its own result gives the same result
\* (the first half of C16, on the inputs of SpecNormalize)
NormalizeIdempotent ==
  (res # <<>> /\ res[1] # Null) =>
    normalizeWorkPeriod(Val(res[1]).start, Val(res[1]).end) = res[1]

\* a run that found no line in the primary log and, in the recovery log,
\* the one pair the previous run appended
RetryAlone ==
  /\ Posted
  /\ ~HasLines(primaryAtStart)
  /\ Len(prevFailed) = 1
  /\ Len(getFileLines(recoveryAtStart)) = 2

\* C16: a work period re-queued after a failed delivery and reduced alone
\* on the next run is delivered as a record with the same start, end and
\* title as the failed attempt's.
C16_RetrySameRecord ==
  RetryAlone =>
    /\ Len(attempts) = 1
    /\ attempts[1].record = postWorkPeriod(prevFailed[1])

\* the time, in milliseconds, that a line's timestamp reads in the file:
\* the number ms / 1000 is printed as the decimal of ms thousandths (the
\* shortest decimal that reads back as it); Null for a number that is not
\* such a quotient.  The parsed date is that time or 1 ms less.
PrintedTime(json) ==
  LET date == unixToDate(json.timestamp)
  IN  IF DoubleDiv(date, 1000) = json.timestamp THEN Some(date)
      ELSE IF DoubleDiv(date + 1, 1000) = json.timestamp THEN Some(date + 1)
      ELSE Null

\* the non-empty lines of a file are complete pairs: a non-stopping line
\* at s followed by a stopping line at e, with e - s a whole number of
\* minutes from 5 to 25
WellFormed(file) ==
  LET lines == getFileLines(file)
  IN  /\ Len(lines) % 2 = 0
      /\ \A k \in 1..(Len(lines) \div 2) :
           LET s == PrintedTime(JsonParse(lines[2 * k - 1]))
               e == PrintedTime(JsonParse(lines[2 * k]))
           IN  /\ ~parseLogLine(lines[2 * k - 1]).stopping
               /\ parseLogLine(lines[2 * k]).stopping
               /\ s # Null /\ e # Null
               /\ (Val(e) - Val(s)) % MINUTE = 0
               /\ Val(e) - Val(s) >= MIN_WORK_PERIOD
               /\ Val(e) - Val(s) <= MAX_WORK_PERIOD

\* C17: the recovery log, absent at first, is well formed, and every step
\* that changes it (the load's clearing, the catch block's append) leaves
\* it well formed: so it is in every state, during runs, between runs and
\* after a kill.
C17_RecoveryWellFormed ==
  /\ WellFormed(recovery)
  /\ [][recovery' # recovery => WellFormed(recovery')]_vars

\* between runs the recovery log holds two pairs, one of them with a start
\* that is read back 1 ms early
C17_Witness ==
  /\ pc = "idle"
  /\ Len(getFileLines(recovery)) = 4
  /\ \E i \in 1..4 :
       LET json == JsonParse(getFileLines(recovery)[i])
       IN  PrintedTime(json) = Some(unixToDate(json.timestamp) + 1)

\* a step in which the Sink accepts a work period, no run having been
\* killed so far: the Sink had not accepted that work period before
C18_StepDeliversOnce ==
  (/\ crashes' = 0
   /\ Len(attempts') = Len(attempts) + 1
   /\ attempts'[Len(attempts')].ok)
    => attempts'[Len(attempts')].wp \notin delivered

\* between runs and at the end of a completed run, no run having been
\* killed: no work period the Sink accepted is printed as a pair of the
\* recovery log, or is among the work periods that the lines left in the
\* two logs reduce to
C18_NoneLeft ==
  (crashes = 0 /\ (pc = "idle" \/ Posted)) =>
    \A wp \in delivered :
      /\ ~InSeq(wp, getWorkPeriods(parseLog(primary) \o parseLog(recovery)))
      /\ \A k \in 1..(Len(getFileLines(recovery)) \div 2) :
           ~ /\ PrintedTime(JsonParse(getFileLines(recovery)[2 * k - 1])) = Some(wp.start)
             /\ PrintedTime(JsonParse(getFileLines(recovery)[2 * k])) = Some(wp.end)

\* C18: as long as no run is killed, the Sink never accepts the same work
\* period twice, and once it has accepted a work period no line of the
\* primary or the recovery log gives that work period to a later run.
C18_NoDuplicateDelivery == [][C18_StepDeliversOnce]_vars /\ []C18_NoneLeft

\* a second completed run, no kill: it found a re-queued pair, the Sink
\* accepted one of its work periods and refused another, which waits in
\* the recovery log
C18_Witness ==
  /\ crashes = 0
  /\ Posted
  /\ Len(prevFailed) > 0
  /\ HasLines(recovery)
  /\ \E i \in 1..Len(attempts) : attempts[i].ok
====
